---------------------------- MODULE Spec2Model ----------------------------
(***************************************************************************)
(* A model of the cppcheck preprocessor (Preprocessor::read, preprocess,   *)
(* getcfgs, getcode, handleIncludes, expandMacros and class Macro).        *)
(*                                                                         *)
(* Text is a sequence of characters, every character a one-character       *)
(* string.  Positions are 0-based as in std::string; npos is -1.           *)
(***************************************************************************)
EXTENDS Integers, Sequences, FiniteSets, TLC

\* ------------------------------------------------------------------ bounds

\* Longest generated raw input of the Reader specification, in characters
\* (without the terminating newline).
MaxReadLen == 4

\* Most lines of a generated conditional-compilation input.
MaxCondLines == 3

\* Most invocation lines that follow the #define line of a generated macro input.
MaxMacroLines == 2

\* the largest number of lines of a generated source file with #include lines
MaxIncLines == 2

\* the largest number of lines after the #define line of a generated input
\* with literals
MaxLiteralLines == 2

\* the largest number of lines of a generated source file whose headers are
\* in directories
MaxPathLines == 2

\* the largest number of lines of a generated text for getcfgs alone
MaxGuardLines == 4

\* the largest length of the configuration of a direct call of match_cfg_def
MaxCfgLen == 3

\* -------------------------------------------------------------- characters

NL == "\n"
CR == "\r"
TAB == "\t"
SP == " "
BS == "\\"
DQ == "\""
SQ == "'"
\* (char)EOF, the byte 0xFF that (char)istr.get() yields at the end of the stream
EOFCH == "<ff>"

npos == -1

Lower == {"a","b","c","d","e","f","g","h","i","j","k","l","m",
          "n","o","p","q","r","s","t","u","v","w","x","y","z"}
Upper == {"A","B","C","D","E","F","G","H","I","J","K","L","M",
          "N","O","P","Q","R","S","T","U","V","W","X","Y","Z"}
Digit == {"0","1","2","3","4","5","6","7","8","9"}

isalpha(ch) == ch \in Lower \cup Upper
isalnum(ch) == ch \in Lower \cup Upper \cup Digit
\* std::isspace(ch) || std::iscntrl(ch), for the characters of the model
isspace_or_cntrl(ch) == ch \in {SP, TAB, CR, NL}

\* std::tolower
tolower(ch) ==
    CASE ch = "A" -> "a" [] ch = "B" -> "b" [] ch = "C" -> "c" [] ch = "D" -> "d"
      [] ch = "E" -> "e" [] ch = "F" -> "f" [] ch = "G" -> "g" [] ch = "H" -> "h"
      [] ch = "I" -> "i" [] ch = "J" -> "j" [] ch = "K" -> "k" [] ch = "L" -> "l"
      [] ch = "M" -> "m" [] ch = "N" -> "n" [] ch = "O" -> "o" [] ch = "P" -> "p"
      [] ch = "Q" -> "q" [] ch = "R" -> "r" [] ch = "S" -> "s" [] ch = "T" -> "t"
      [] ch = "U" -> "u" [] ch = "V" -> "v" [] ch = "W" -> "w" [] ch = "X" -> "x"
      [] ch = "Y" -> "y" [] ch = "Z" -> "z" [] OTHER -> ch

\* ------------------------------------------------------------ std::string

Min(a, b) == IF a < b THEN a ELSE b
Max(a, b) == IF a > b THEN a ELSE b

\* s[i], 0-based; the terminating 0 of the buffer at i = s.length()
At(s, i) == IF i >= 0 /\ i < Len(s) THEN s[i + 1] ELSE "<nul>"

\* s.substr(pos, n): n is clamped to the end of the string
Substr(s, pos, n) == SubSeq(s, pos + 1, Min(Len(s), pos + n))

\* s.substr(pos)
SubstrFrom(s, pos) == SubSeq(s, pos + 1, Len(s))

\* s.erase(pos, n)
Erase(s, pos, n) == SubSeq(s, 1, pos) \o SubSeq(s, Min(Len(s), pos + n) + 1, Len(s))

\* s.erase(pos)
EraseFrom(s, pos) == SubSeq(s, 1, pos)

\* s.insert(pos, t)
Insert(s, pos, t) == SubSeq(s, 1, pos) \o t \o SubSeq(s, pos + 1, Len(s))

\* does pat occur in s at position i
MatchAt(s, pat, i) ==
    /\ i >= 0
    /\ i + Len(pat) <= Len(s)
    /\ \A k \in 1..Len(pat) : s[i + k] = pat[k]

\* s.find(pat, from)
Find(s, pat, from) ==
    LET hits == {i \in Max(from, 0)..(Len(s) - Len(pat)) : MatchAt(s, pat, i)}
    IN  IF hits = {} THEN npos ELSE CHOOSE i \in hits : \A j \in hits : i <= j

\* s.find_first_of(chars, from)
FindFirstOf(s, chars, from) ==
    LET hits == {i \in Max(from, 0)..(Len(s) - 1) : s[i + 1] \in chars}
    IN  IF hits = {} THEN npos ELSE CHOOSE i \in hits : \A j \in hits : i <= j

\* s.find_first_not_of(chars)
FindFirstNotOf(s, chars) ==
    LET hits == {i \in 0..(Len(s) - 1) : s[i + 1] \notin chars}
    IN  IF hits = {} THEN npos ELSE CHOOSE i \in hits : \A j \in hits : i <= j

\* s.find_last_of(chars)
FindLastOf(s, chars) ==
    LET hits == {i \in 0..(Len(s) - 1) : s[i + 1] \in chars}
    IN  IF hits = {} THEN npos ELSE CHOOSE i \in hits : \A j \in hits : i >= j

\* std::string(n, ch)
Repeat(n, ch) == [k \in 1..n |-> ch]

\* the number of characters of s equal to ch
Count(s, ch) == Cardinality({k \in 1..Len(s) : s[k] = ch})

\* the lines std::getline yields for the text of an istringstream: the text
\* split at every newline, a last line without newline included when not empty
RECURSIVE getlines(_)
getlines(text) ==
    IF text = <<>> THEN <<>>
    ELSE LET p == Find(text, <<NL>>, 0)
         IN  IF p = npos THEN <<text>>
             ELSE <<SubSeq(text, 1, p)>> \o getlines(SubstrFrom(text, p + 1))

\* ------------------------------------------------------------ std::istream

\* A stream over the text s is a record [i, good]: i characters were
\* consumed; good is istr.good().

\* (char)istr.get(): at the end of the text it yields (char)EOF and the
\* stream is no longer good
Get(s, st) ==
    IF st.good /\ st.i < Len(s)
    THEN [ch |-> s[st.i + 1], i |-> st.i + 1, good |-> TRUE]
    ELSE [ch |-> EOFCH, i |-> st.i, good |-> FALSE]

\* (char)istr.peek(): consumes nothing; at the end of the text it sets eofbit
Peek(s, st) ==
    IF st.good /\ st.i < Len(s)
    THEN [ch |-> s[st.i + 1], i |-> st.i, good |-> TRUE]
    ELSE [ch |-> EOFCH, i |-> st.i, good |-> FALSE]

readChar(s, st) ==
    LET g == Get(s, st)
    IN  IF g.ch = CR
        THEN LET p == Peek(s, g)
             IN  IF p.ch = NL
                 THEN [ch |-> NL, i |-> g.i + 1, good |-> TRUE]
                 ELSE [ch |-> NL, i |-> g.i, good |-> p.good]
        ELSE g

\* ------------------------------------------------------ Preprocessor::read

\* the loop "while (istr.good() && ch != '\n') ch = readChar(istr);" of a
\* // comment: the stream after it
RECURSIVE skipLineComment(_, _)
skipLineComment(s, r) ==
    IF r.good /\ r.ch # NL THEN skipLineComment(s, readChar(s, r)) ELSE r

\* the loop of a /* comment: [r |-> the stream after it, out |-> the
\* newlines written to code]
RECURSIVE skipBlockComment(_, _, _, _)
skipBlockComment(s, r, chPrev, out) ==
    IF r.good /\ (chPrev # "*" \/ r.ch # "/")
    THEN LET n == readChar(s, r)
         IN  skipBlockComment(s, n, r.ch, IF n.ch = NL THEN out \o <<NL>> ELSE out)
    ELSE [r |-> r, out |-> out]

\* the do-while loop of a string or character constant opened by quote:
\* [r |-> the stream after it, out |-> what is written to code,
\*  newlines |-> the counter of <backslash><newline> sequences]
RECURSIVE readLiteral(_, _, _, _, _)
readLiteral(s, st, quote, out, newlines) ==
    LET g == Get(s, st)
        q == readChar(s, g)
        isSeq == g.ch = BS
        r == IF isSeq THEN q ELSE g
        out2 == IF isSeq
                THEN (IF q.ch = NL THEN out ELSE out \o <<g.ch, q.ch>>)
                ELSE out \o <<g.ch>>
        nl2 == IF isSeq /\ q.ch = NL THEN newlines + 1 ELSE newlines
    IN  IF r.good /\ g.ch # quote
        THEN readLiteral(s, [i |-> r.i, good |-> r.good], quote, out2, nl2)
        ELSE [r |-> r, out |-> out2, newlines |-> nl2]

\* a plausible slip: the deferred newlines are never written
extraNewlinesNone(ch, newlines) == <<>>

\* "if there has been <backspace><newline> sequences, add extra newlines..":
\* what follows the character ch of plain code in the output
extraNewlines(ch, newlines) ==
    IF ch = NL /\ newlines > 0 THEN Repeat(newlines, NL) ELSE <<>>

\* the state of the for loop of read: the character ch just read, the
\* stream [i, good] and the locals (lineno is only counted, never used: not
\* modelled)
readState(r, ignoreSpace, needSpace, newlines, code) ==
    [ch |-> r.ch, i |-> r.i, good |-> r.good, ignoreSpace |-> ignoreSpace,
     needSpace |-> needSpace, newlines |-> newlines, code |-> code]

\* one turn of the for loop of read, the readChar of its increment included
readStep(s, r) ==
    LET st == [i |-> r.i, good |-> r.good]
        ch == IF r.ch # NL /\ isspace_or_cntrl(r.ch) THEN SP ELSE r.ch
        ignoreSpace2 == ch \in {SP, "#", "/"}
        code1 == IF r.needSpace /\ ch = "(" THEN r.code \o <<SP>> ELSE r.code
        needSpace1 == IF r.needSpace /\ ch # "(" /\ ~isalpha(ch) THEN FALSE
                      ELSE r.needSpace
        needSpace2 == IF ch = "#" THEN TRUE ELSE needSpace1
        n == readChar(s, st)
        lc == skipLineComment(s, [ch |-> ch, i |-> n.i, good |-> n.good])
        bc == skipBlockComment(s, [ch |-> ch, i |-> n.i, good |-> n.good], "<nul>", <<>>)
        lit == readLiteral(s, st, ch, <<>>, r.newlines)
        p == Peek(s, st)
        k == readChar(s, [i |-> p.i, good |-> p.good])
    IN
    CASE r.ch = EOFCH ->
            readState(n, r.ignoreSpace, r.needSpace, r.newlines, r.code)
      [] r.ch # EOFCH /\ ch = SP /\ r.ignoreSpace ->
            readState(n, r.ignoreSpace, r.needSpace, r.newlines, r.code)
      [] OTHER ->
        CASE ch = "/" /\ n.ch = "/" ->
                readState(readChar(s, [i |-> lc.i, good |-> lc.good]),
                          ignoreSpace2, needSpace2, r.newlines, code1 \o <<NL>>)
          [] ch = "/" /\ n.ch = "*" ->
                readState(readChar(s, [i |-> bc.r.i, good |-> bc.r.good]),
                          ignoreSpace2, needSpace2, r.newlines, code1 \o bc.out)
          [] ch = "/" /\ n.ch \notin {"/", "*"} ->
                readState(readChar(s, [i |-> n.i, good |-> n.good]),
                          ignoreSpace2, needSpace2, r.newlines, code1 \o <<ch, n.ch>>)
          [] ch = DQ \/ ch = SQ ->
                readState(readChar(s, [i |-> lit.r.i, good |-> lit.r.good]),
                          ignoreSpace2, needSpace2, lit.newlines,
                          code1 \o <<ch>> \o lit.out)
          [] ch = BS /\ p.ch \in {NL, CR} ->
                readState(readChar(s, [i |-> k.i, good |-> k.good]),
                          ignoreSpace2, needSpace2, r.newlines + 1, code1)
          [] ch = BS /\ p.ch \notin {NL, CR} ->
                readState(readChar(s, [i |-> p.i, good |-> p.good]),
                          ignoreSpace2, needSpace2, r.newlines, code1 \o <<BS>>)
          [] OTHER ->
                readState(n, ignoreSpace2, needSpace2,
                          IF ch = NL THEN 0 ELSE r.newlines,
                          code1 \o <<ch>> \o extraNewlines(ch, r.newlines))

\* the for loop of read
RECURSIVE readLoop(_, _)
readLoop(s, r) == IF ~r.good THEN r.code ELSE readLoop(s, readStep(s, r))

\* Preprocessor::read(istr)
read(s) ==
    readLoop(s, readState(readChar(s, [i |-> 0, good |-> TRUE]), TRUE, FALSE, 0, <<>>))

\* -------------------------------------------------- preprocess: the cleanup

\* std::replace(processedFile.begin(), processedFile.end(), '\t', ' ')
replaceTabs(str) == [k \in 1..Len(str) |-> IF str[k] = TAB THEN SP ELSE str[k]]

\* if (!processedFile.empty() && processedFile[0] == ' ')
\*     processedFile.erase(0, processedFile.find_first_not_of(" "));
removeIndentation(str) ==
    IF str # <<>> /\ str[1] = SP
    THEN LET p == FindFirstNotOf(str, {SP})
         IN  IF p = npos THEN <<>> ELSE SubstrFrom(str, p)
    ELSE str

\* the loop of removeSpaceNearNL from index i on; prev is tmp.size() - 1
RECURSIVE removeSpaceNearNLLoop(_, _, _)
removeSpaceNearNLLoop(str, i, tmp) ==
    IF i >= Len(str) THEN tmp
    ELSE IF /\ At(str, i) = SP
            /\ \/ (i > 0 /\ At(tmp, Len(tmp) - 1) = NL)
               \/ (i + 1 < Len(str) /\ At(str, i + 1) = NL)
         THEN removeSpaceNearNLLoop(str, i + 1, tmp)
         ELSE removeSpaceNearNLLoop(str, i + 1, Append(tmp, At(str, i)))

removeSpaceNearNL(str) == removeSpaceNearNLLoop(str, 0, <<>>)

\* ------------------------------------------------------------ the literals

H_INCLUDE == <<"#","i","n","c","l","u","d","e">>
H_FILE_SP == <<"#","f","i","l","e"," ">>
H_FILE_Q == <<"#","f","i","l","e"," ","\"">>
H_ENDFILE == <<"#","e","n","d","f","i","l","e">>
H_IF_DEFINED == <<"#","i","f"," ","d","e","f","i","n","e","d","(">>
H_IFDEF_SP == <<"#","i","f","d","e","f"," ">>
H_IF_SP == <<"#","i","f"," ">>
H_ELIF_SP == <<"#","e","l","i","f"," ">>
H_IFNDEF_SP == <<"#","i","f","n","d","e","f"," ">>
H_ELSE == <<"#","e","l","s","e">>
H_ENDIF == <<"#","e","n","d","i","f">>
H_DEFINE == <<"#","d","e","f","i","n","e">>
H_DEFINE_SP == <<"#","d","e","f","i","n","e"," ">>
H_UNDEF_SP == <<"#","u","n","d","e","f"," ">>
NL_H_UNDEF_SP == <<"\n","#","u","n","d","e","f"," ">>
DEF_SP == <<"d","e","f"," ">>

\* ------------------------------------------------------- replaceIfDefined

RECURSIVE replaceIfDefinedLoop(_, _)
replaceIfDefinedLoop(ret, from) ==
    LET pos == Find(ret, H_IF_DEFINED, from)
        pos2 == Find(ret, <<")">>, pos + 9)
    IN  IF pos = npos THEN ret
        ELSE IF pos2 = npos \/ pos2 > Len(ret) - 1 THEN ret
        ELSE IF At(ret, pos2 + 1) = NL
             THEN replaceIfDefinedLoop(
                      Insert(Erase(Erase(ret, pos2, 1), pos + 3, 9), pos + 3, DEF_SP),
                      pos + 1)
             ELSE replaceIfDefinedLoop(ret, pos + 1)

replaceIfDefined(str) == replaceIfDefinedLoop(str, 0)

\* ------------------------------------------------------------------ getdef

\* line with every space removed
removeSpaces(line) == SelectSeq(line, LAMBDA c : c # SP)

getdef(line, def) ==
    IF def /\ Find(line, H_IFDEF_SP, 0) # 0 /\ Find(line, H_IF_SP, 0) # 0
           /\ Find(line, H_ELIF_SP, 0) # 0
    THEN <<>>
    ELSE IF ~def /\ Find(line, H_IFNDEF_SP, 0) # 0
    THEN <<>>
    ELSE removeSpaces(SubstrFrom(line, Find(line, <<SP>>, 0)))

\* ------------------------------------------------------------ match_cfg_def

RECURSIVE match_cfg_def_loop(_, _)
match_cfg_def_loop(cfg, def) ==
    IF cfg = <<>> THEN FALSE
    ELSE LET p == Find(cfg, <<";">>, 0)
         IN  IF p = npos THEN cfg = def
             ELSE IF Substr(cfg, 0, p) = def THEN TRUE
             ELSE match_cfg_def_loop(Erase(cfg, 0, p + 1), def)

\* a plausible slip: cfg is compared as a whole, not token by token
match_cfg_def_whole(cfg, def) ==
    IF def = <<"0">> THEN FALSE
    ELSE IF def = <<"1">> THEN TRUE
    ELSE cfg = def

\* a plausible slip: def is looked for anywhere in cfg
match_cfg_def_substring(cfg, def) ==
    IF def = <<"0">> THEN FALSE
    ELSE IF def = <<"1">> THEN TRUE
    ELSE Find(cfg, def, 0) # npos

match_cfg_def(cfg, def) ==
    IF def = <<"0">> THEN FALSE
    ELSE IF def = <<"1">> THEN TRUE
    ELSE IF cfg = <<>> THEN FALSE
    ELSE match_cfg_def_loop(cfg, def)

\* ------------------------------------------------------------ handleIncludes

\* the characters between the first double quote of str and the next one
getHeaderFileName(str) ==
    LET i == Find(str, <<DQ>>, 0)
        j == Find(str, <<DQ>>, i + 1)
    IN  IF i = npos THEN <<>>
        ELSE IF j = npos THEN SubstrFrom(str, i + 1)
        ELSE Substr(str, i + 1, j - (i + 1))

\* a plausible slip: the name is not folded to lower case
lowercaseNone(str) == str

\* std::transform(..., std::tolower)
lowercase(str) == [k \in 1..Len(str) |-> tolower(str[k])]

\* path = filename; path.erase(1 + path.find_last_of("\\/"));
dirOf(fname) == EraseFrom(fname, 1 + FindLastOf(fname, {BS, "/"}))

\* the file system: fs maps the names of the files that can be opened to
\* their contents.  The text std::ifstream yields for name (nothing when the
\* file cannot be opened), read by Preprocessor::read
readFile(fs, name) == IF name \in DOMAIN fs THEN read(fs[name]) ELSE <<>>

\* the loop over includePaths from its k-th entry on: [filename, processedFile]
RECURSIVE searchIncludePaths(_, _, _, _)
searchIncludePaths(fs, incPaths, k, fname) ==
    IF k > Len(incPaths) THEN [filename |-> fname, processedFile |-> <<>>]
    ELSE IF (incPaths[k] \o fname) \in DOMAIN fs
         THEN [filename |-> incPaths[k] \o fname,
               processedFile |-> read(fs[incPaths[k] \o fname])]
         ELSE searchIncludePaths(fs, incPaths, k + 1, fname)

\* a plausible slip: the closing marker is not written
wrapHeaderNoEnd(fname, text) ==
    H_FILE_Q \o fname \o <<DQ, NL>>
        \o removeSpaceNearNL(removeIndentation(replaceTabs(text)))

\* the header as it is inserted: #file "<filename>", its cleaned text, #endfile
wrapHeader(fname, text) ==
    H_FILE_Q \o fname \o <<DQ, NL>>
        \o removeSpaceNearNL(removeIndentation(replaceTabs(text)))
        \o <<NL>> \o H_ENDFILE

\* the end of a turn of the while loop of handleIncludes, the header found
\* (or not) being found = [filename, processedFile]: the header is inserted
\* where the clause was, if it has any text
insertHeader(code2, pos, handled, tempFile, found) ==
    IF Len(found.processedFile) > 0
    THEN [code |-> Insert(code2, pos, wrapHeader(found.filename, found.processedFile)),
          pos |-> pos, handledFiles |-> handled \cup {tempFile}, done |-> FALSE]
    ELSE [code |-> code2, pos |-> pos, handledFiles |-> handled \cup {tempFile},
          done |-> FALSE]

\* the header that was not found in the include paths is looked for in the
\* directory of the source file: [filename, processedFile]
openHeader(fs, path, found) ==
    IF Len(found.processedFile) = 0
    THEN [filename |-> path \o found.filename,
          processedFile |-> readFile(fs, path \o found.filename)]
    ELSE found

\* a turn of the while loop of handleIncludes for the clause at pos, fname
\* being the name of the header and code2 the text without the clause
includeHeader(fs, code2, pos, path, incPaths, handled, fname) ==
    IF Len(fname) = 0
        THEN [code |-> code2, pos |-> pos, handledFiles |-> handled, done |-> FALSE]
    ELSE IF lowercase(fname) \in handled
        THEN [code |-> code2, pos |-> pos, handledFiles |-> handled, done |-> FALSE]
    ELSE insertHeader(code2, pos, handled, lowercase(fname),
                      openHeader(fs, path, searchIncludePaths(fs, incPaths, 1, fname)))

\* a turn of the while loop of handleIncludes for the "#include" found at
\* pos, n being the length of its clause
includeClause(fs, code, pos, n, path, incPaths, handled) ==
    includeHeader(fs, Erase(code, pos, n), pos, path, incPaths, handled,
                  getHeaderFileName(Substr(code, pos, n)))

\* the length of the clause at pos, which ends before the next newline
clauseLength(code, pos, end) == IF end = npos THEN Len(code) ELSE end - pos

\* a turn of the while loop of handleIncludes, pos being where "#include"
\* was found from position from on; handled is the set of the keys of the
\* map handledFiles: [code, pos, handledFiles, done]; done when the loop is
\* left
includeAt(fs, code, from, pos, path, incPaths, handled) ==
    IF pos = npos
        THEN [code |-> code, pos |-> from, handledFiles |-> handled, done |-> TRUE]
    ELSE IF pos > 0 /\ At(code, pos - 1) # NL
        THEN [code |-> code, pos |-> pos + 8, handledFiles |-> handled, done |-> FALSE]
    ELSE includeClause(fs, code, pos, clauseLength(code, pos, Find(code, <<NL>>, pos)),
                       path, incPaths, handled)

handleIncludesStep(fs, code, from, path, incPaths, handled) ==
    includeAt(fs, code, from, Find(code, H_INCLUDE, from), path, incPaths, handled)

\* ---------------------------------------------------------------- Tokenizer

\* The tokenizer is not part of the preprocessor's source: it is the
\* capability tokenize(text) -> token list, every token with its lexeme and
\* isName.  A token is a sequence of characters.

isNameChar(ch) == isalnum(ch) \/ ch = "_"

\* the end (exclusive, 0-based) of the run of name characters that starts at i
RECURSIVE nameEnd(_, _)
nameEnd(text, i) ==
    IF i < Len(text) /\ isNameChar(At(text, i)) THEN nameEnd(text, i + 1) ELSE i

\* the end (exclusive) of the literal whose opening quote is at i
RECURSIVE literalEnd(_, _, _)
literalEnd(text, quote, i) ==
    IF i >= Len(text) THEN Len(text)
    ELSE IF At(text, i) = BS THEN literalEnd(text, quote, i + 2)
    ELSE IF At(text, i) = quote THEN i + 1
    ELSE literalEnd(text, quote, i + 1)

\* the end (exclusive) of the token that starts at i
tokenEnd(text, i) ==
    LET c == At(text, i)
    IN  IF isNameChar(c) THEN nameEnd(text, i)
        ELSE IF c = DQ \/ c = SQ THEN Min(Len(text), literalEnd(text, c, i + 1))
        ELSE IF c = "#" /\ At(text, i + 1) = "#" THEN i + 2
        ELSE IF c = "#" /\ isNameChar(At(text, i + 1)) THEN nameEnd(text, i + 1)
        ELSE i + 1

RECURSIVE tokenizeFrom(_, _)
tokenizeFrom(text, i) ==
    IF i >= Len(text) THEN <<>>
    ELSE IF At(text, i) \in {SP, NL, TAB} THEN tokenizeFrom(text, i + 1)
    ELSE LET e == tokenEnd(text, i)
         IN  <<Substr(text, i, e - i)>> \o tokenizeFrom(text, e)

tokenize(text) == tokenizeFrom(text, 0)

\* Token::isName
isName(tok) == tok # <<>> /\ (isalpha(tok[1]) \/ tok[1] = "_")

\* the token at index k of toks (1-based), <<>> for the null pointer
tokAt(toks, k) == IF k >= 1 /\ k <= Len(toks) THEN toks[k] ELSE <<>>

\* -------------------------------------------------------------- class Macro

\* the for loop of the constructor over the tokens from index k on:
\* [params, variadic]
RECURSIVE macroParams(_, _, _)
macroParams(toks, k, params) ==
    IF k > Len(toks) THEN [params |-> params, variadic |-> FALSE]
    ELSE IF toks[k] = <<")">> THEN [params |-> params, variadic |-> FALSE]
    ELSE IF /\ toks[k] = <<".">> /\ tokAt(toks, k + 1) = <<".">>
            /\ tokAt(toks, k + 2) = <<".">> /\ tokAt(toks, k + 3) = <<")">>
         THEN [params |-> params, variadic |-> TRUE]
    ELSE IF isName(toks[k]) THEN macroParams(toks, k + 1, Append(params, toks[k]))
    ELSE macroParams(toks, k + 1, params)

\* Macro::Macro(macro): the record [macro, tokens, name, params, variadic]
Macro(macro) ==
    LET toks == tokenize(macro)
        pos == FindFirstOf(macro, {SP, "("}, 0)
        hasList == /\ pos # npos /\ At(macro, pos) = "("
                   /\ isName(tokAt(toks, 1)) /\ tokAt(toks, 2) = <<"(">>
                   /\ isName(tokAt(toks, 3))
        pv == IF hasList THEN macroParams(toks, 3, <<>>)
              ELSE [params |-> <<>>, variadic |-> FALSE]
    IN  [macro |-> macro,
         tokens |-> toks,
         name |-> IF isName(tokAt(toks, 1)) THEN toks[1] ELSE <<>>,
         params |-> pv.params,
         variadic |-> pv.variadic]

\* params2[i] (0-based); an index past the end of the vector is undefined
\* behaviour in the source, shown here as the text <ub>
paramAt(params2, i) == IF i < Len(params2) THEN params2[i + 1] ELSE <<"<ub>">>

\* the index (0-based) of the first parameter equal to str, -1 when none
paramIndex(params, str) ==
    LET hits == {i \in 0..(Len(params) - 1) : params[i + 1] = str}
    IN  IF hits = {} THEN -1 ELSE CHOOSE i \in hits : \A j \in hits : i <= j

\* the loop that joins the variadic arguments params2[j..]:
\* [str, optcomma]
RECURSIVE joinVariadic(_, _, _, _, _)
joinVariadic(params2, first, j, str, optcomma) ==
    IF j >= Len(params2) THEN [str |-> str, optcomma |-> optcomma]
    ELSE joinVariadic(params2, first, j + 1,
                      (IF optcomma \/ j > first THEN str \o <<",">> ELSE str)
                          \o params2[j + 1],
                      FALSE)

\* the while loop of Macro::code over the tokens that follow the ")" of the
\* parameter list, from index k on
RECURSIVE macroCodeLoop(_, _, _, _, _)
macroCodeLoop(m, params2, k, optcomma, macrocode) ==
    IF k > Len(m.tokens) THEN macrocode
    ELSE
    LET tok == m.tokens[k]
        stringify == tok[1] = "#"
        str0 == IF stringify THEN Tail(tok) ELSE tok
        i == paramIndex(m.params, str0)
        isVar == m.variadic /\ i = Len(m.params) - 1
        joined == joinVariadic(params2, Len(m.params) - 1, Len(m.params) - 1,
                               <<>>, optcomma)
        subst == tok[1] = "#" \/ isName(tok)
        str == IF ~subst \/ i = -1 THEN (IF subst THEN str0 ELSE tok)
               ELSE IF isVar THEN joined.str
               ELSE IF stringify THEN <<DQ>> \o paramAt(params2, i) \o <<DQ>>
               ELSE paramAt(params2, i)
        space == IF isName(tok) /\ isName(tokAt(m.tokens, k + 1)) THEN <<SP>> ELSE <<>>
    IN
    IF tok = <<"#","#">> THEN macroCodeLoop(m, params2, k + 1, optcomma, macrocode)
    ELSE IF m.variadic /\ tok = <<",">> /\ tokAt(m.tokens, k + 1) = <<"#","#">>
        THEN macroCodeLoop(m, params2, k + 1, TRUE, macrocode)
    ELSE macroCodeLoop(m, params2, k + 1, FALSE, macrocode \o str \o space)

\* the index of the first token ")" of the macro, 0 when there is none
firstCloseParen(toks) ==
    LET hits == {k \in 1..Len(toks) : toks[k] = <<")">>}
    IN  IF hits = {} THEN 0 ELSE CHOOSE k \in hits : \A j \in hits : k <= j

\* Macro::code(params2)
macroCode(m, params2) ==
    IF m.params = <<>>
    THEN LET pos == Find(m.macro, <<SP>>, 0)
             body == SubstrFrom(m.macro, pos + 1)
             e == FindFirstOf(body, {CR, NL}, 0)
         IN  IF pos = npos THEN <<>>
             ELSE IF e = npos THEN body ELSE EraseFrom(body, e)
    ELSE LET c == firstCloseParen(m.tokens)
         IN  IF c = 0 THEN <<>> ELSE macroCodeLoop(m, params2, c + 1, FALSE, <<>>)

\* ------------------------------------------------------------ expandMacros

\* the while loop that copies a literal of an argument into par, from pos2
\* on: [pos2, par]
RECURSIVE argLiteral(_, _, _, _)
argLiteral(code, quote, pos2, par) ==
    IF pos2 < Len(code) /\ At(code, pos2) # quote
    THEN IF At(code, pos2) = BS
         THEN argLiteral(code, quote, pos2 + 2, par \o <<BS, BS>>)
         ELSE argLiteral(code, quote, pos2 + 1, Append(par, At(code, pos2)))
    ELSE [pos2 |-> pos2, par |-> par]

\* the for loop that parses the arguments of an invocation, from pos2 on:
\* [pos2, params, numberOfNewlines]
RECURSIVE parseParams(_, _, _, _, _, _)
parseParams(code, pos2, parlevel, par, params, numberOfNewlines) ==
    IF pos2 >= Len(code)
    THEN [pos2 |-> pos2, params |-> params, numberOfNewlines |-> numberOfNewlines]
    ELSE
    LET c == At(code, pos2)
        parlevel2 == IF c = "(" THEN parlevel + 1
                     ELSE IF c = ")" THEN parlevel - 1 ELSE parlevel
        nls == IF c = NL THEN numberOfNewlines + 1 ELSE numberOfNewlines
        lit == argLiteral(code, c, pos2 + 1, Append(par, c))
    IN
    IF c = "(" /\ parlevel2 = 1
        THEN parseParams(code, pos2 + 1, parlevel2, par, params, nls)
    ELSE IF c = ")" /\ parlevel2 <= 0
        THEN [pos2 |-> pos2, params |-> Append(params, par), numberOfNewlines |-> nls]
    ELSE IF c = DQ \/ c = SQ
        THEN IF lit.pos2 = Len(code)
             THEN [pos2 |-> lit.pos2, params |-> params, numberOfNewlines |-> nls]
             ELSE parseParams(code, lit.pos2 + 1, parlevel2,
                              Append(lit.par, At(code, lit.pos2)), params, nls)
    ELSE IF parlevel2 = 1 /\ c = ","
        THEN parseParams(code, pos2 + 1, parlevel2, <<>>, Append(params, par), nls)
    ELSE IF c = SP
        THEN parseParams(code, pos2 + 1, parlevel2, par, params, nls)
    ELSE IF parlevel2 >= 1
        THEN parseParams(code, pos2 + 1, parlevel2, Append(par, c), params, nls)
    ELSE parseParams(code, pos2 + 1, parlevel2, par, params, nls)

\* the while loop that skips a literal of the text, pos1 at a character
\* after the opening quote: the position of the closing quote, npos when the
\* end of the text was reached without finding the pair
RECURSIVE skipLiteral(_, _, _)
skipLiteral(code, quote, pos1) ==
    IF At(code, pos1) = quote THEN pos1
    ELSE LET p == IF At(code, pos1) = BS THEN pos1 + 2 ELSE pos1 + 1
         IN  IF p >= Len(code) THEN npos ELSE skipLiteral(code, quote, p)

\* a plausible slip: the scan resumes where the expansion was inserted
resumeAtStart(pos1, macrocode) == pos1 - 1

\* pos1 += macrocode.length() - 1;
resumeAt(pos1, macrocode) == pos1 + Len(macrocode) - 1

\* the inner while loop of expandMacros goes on from position pos1
scanOn(code, pos1) == [code |-> code, pos1 |-> pos1, done |-> FALSE, error |-> FALSE]

\* the inner while loop of expandMacros is left
scanEnd(code, pos1, error) == [code |-> code, pos1 |-> pos1, done |-> TRUE, error |-> error]

\* one turn of the inner while loop of expandMacros, which expands macro m
\* in the text after position from: [code, pos1, done, error]; done when
\* the loop is left, error when expandMacros returned "" and reported
\* noQuoteCharPair
expandTurn(code, m, from) ==
    LET nlen == Len(m.name)
        pos1 == FindFirstOf(code, {DQ, SQ, "#", m.name[1]}, from + 1)
        ch == At(code, pos1)
    IN
    IF pos1 = npos THEN scanEnd(code, from, FALSE)
    ELSE IF ch = "#" THEN
        LET q == IF Substr(code, pos1, 7) = H_UNDEF_SP THEN pos1 + 7
                 ELSE IF Substr(code, pos1, 8) = H_DEFINE_SP THEN pos1 + 8
                 ELSE npos
        IN  IF q = npos THEN scanOn(code, pos1)
            ELSE IF /\ q + nlen < Len(code)
                    /\ Substr(code, q, nlen) = m.name
                    /\ ~isalnum(At(code, q + nlen))
                    /\ At(code, q + nlen) # "_"
                 THEN scanEnd(code, q, FALSE)
            ELSE scanOn(code, q)
    ELSE IF ch = DQ \/ ch = SQ THEN
        LET e == skipLiteral(code, ch, pos1 + 1)
        IN  IF e = npos THEN scanEnd(<<>>, pos1, TRUE)
            ELSE scanOn(code, e)
    ELSE IF Substr(code, pos1, nlen) # m.name THEN scanOn(code, pos1)
    ELSE IF pos1 # 0 /\ (isalnum(At(code, pos1 - 1)) \/ At(code, pos1 - 1) = "_")
        THEN scanOn(code, pos1)
    ELSE IF /\ pos1 + nlen < Len(code)
            /\ (isalnum(At(code, pos1 + nlen)) \/ At(code, pos1 + nlen) = "_")
        THEN scanOn(code, pos1)
    ELSE IF Len(m.params) > 0 /\ pos1 + nlen >= Len(code)
        THEN scanOn(code, pos1)
    ELSE IF Len(m.params) > 0 /\ At(code, pos1 + nlen) # "("
        THEN scanOn(code, pos1)
    ELSE
    LET pp == IF Len(m.params) > 0
              THEN parseParams(code, pos1 + nlen, 0, <<>>, <<>>, 0)
              ELSE [pos2 |-> pos1 + nlen, params |-> <<>>, numberOfNewlines |-> 0]
        macrocode == Repeat(pp.numberOfNewlines, NL) \o macroCode(m, pp.params)
        pos2 == IF Len(m.params) > 0 THEN pp.pos2 + 1 ELSE pp.pos2
    IN  IF ~m.variadic /\ Len(pp.params) # Len(m.params)
        THEN scanOn(code, pos1)
        ELSE scanOn(Insert(Erase(code, pos1, pos2 - pos1), pos1, macrocode),
                    resumeAt(pos1, macrocode))

\* the inner while loop of expandMacros, which expands macro m in the text
\* after position from: [code, error]
RECURSIVE expandLoop(_, _, _)

\* the inner while loop after a turn whose outcome is t
expandNext(m, t) ==
    IF t.done THEN [code |-> t.code, error |-> t.error]
    ELSE expandLoop(t.code, m, t.pos1)

expandLoop(code, m, from) == expandNext(m, expandTurn(code, m, from))

\* one turn of the outer while loop of expandMacros, which looks for the
\* next "#define " from defpos on:
\* [code, defpos, done, error]; done when the loop is left
expandDefine(code, defpos0) ==
    LET defpos == Find(code, H_DEFINE_SP, defpos0)
        endpos == Find(code, <<NL>>, defpos + 6)
        m == Macro(Substr(code, defpos + 8, endpos - defpos - 7))
        code2 == Erase(code, defpos, endpos - defpos)
        ex == expandLoop(code2, m, defpos)
    IN
    IF defpos = npos
        THEN [code |-> code, defpos |-> defpos0, done |-> TRUE, error |-> FALSE]
    ELSE IF defpos > 0 /\ At(code, defpos - 1) # NL
        THEN [code |-> code, defpos |-> defpos + 6, done |-> FALSE, error |-> FALSE]
    ELSE IF endpos = npos
        THEN [code |-> EraseFrom(code, defpos), defpos |-> defpos, done |-> TRUE,
              error |-> FALSE]
    ELSE IF m.name = <<>>
        THEN [code |-> code2, defpos |-> defpos, done |-> FALSE, error |-> FALSE]
    ELSE [code |-> ex.code, defpos |-> defpos, done |-> ex.error, error |-> ex.error]

\* the loop "Remove all #undef.." from defpos on
RECURSIVE removeUndef(_, _)
removeUndef(code, from) ==
    LET p == Find(code, NL_H_UNDEF_SP, from)
        pos2 == Find(code, <<NL>>, p + 1)
    IN  IF p = npos THEN code
        ELSE removeUndef(IF pos2 = npos THEN EraseFrom(code, p + 1)
                         ELSE Erase(code, p + 1, pos2 - (p + 1)),
                         p + 1)

\* ------------------------------------------------------------------- state

VARIABLES
    pc,                   \* the place of the call preprocess(istr, result, ...)
    istr,                 \* the characters of the input stream
    filename,             \* the name of the source file
    includePaths,         \* the include-search roots, in order
    files,                \* the file system: file name -> characters
    errorLogger,          \* whether the caller supplies an ErrorLogger
    mdef,                 \* the argument def of a direct call of match_cfg_def
    pos,                  \* handleIncludes: the position in the text
    handledFiles,         \* handleIncludes: the keys of the map handledFiles
    processedFile,        \* preprocess: the text `data`
    resultConfigurations, \* preprocess: the list `configs`
    it,                   \* preprocess: the iterator over configs (1-based);
                          \* 0 while getcode runs for a direct caller
    result,               \* preprocess: the map configuration -> text
    lines,                \* the lines std::getline has still to yield
    deflist,              \* getcfgs: the guard stack
    filelevel,            \* getcfgs: the depth of #file nesting
    ret,                  \* getcfgs: the list of configurations
    cfg,                  \* getcode: the configuration
    match,                \* getcode
    matching_ifdef,       \* getcode
    matched_ifdef,        \* getcode
    out,                  \* getcode: the stream `ret`
    code,                 \* expandMacros: the text; then what getcode returned
    defpos,               \* expandMacros
    errorLog,             \* the ids of the errors reported to the ErrorLogger
    ub                    \* whether undefined behaviour has occurred

vars == <<pc, istr, filename, includePaths, files, errorLogger, mdef, pos,
          handledFiles, processedFile,
          resultConfigurations, it, result, lines, deflist, filelevel, ret,
          cfg, match, matching_ifdef, matched_ifdef, out, code, defpos,
          errorLog, ub>>

inputVars == <<istr, filename, includePaths, files, errorLogger, mdef>>
includeVars == <<pos, handledFiles>>
getcfgsVars == <<lines, deflist, filelevel, ret>>
getcodeVars == <<cfg, match, matching_ifdef, matched_ifdef, out>>
expandVars == <<code, defpos, errorLog>>

\* -------------------------------------------------------------- preprocess

\* processedFile = read(istr);
Read ==
    /\ pc = "read"
    /\ processedFile' = read(istr)
    /\ pc' = "cleanup"
    /\ UNCHANGED <<inputVars, includeVars, resultConfigurations, it, result, getcfgsVars,
                   getcodeVars, expandVars, ub>>

\* tabs, indentation, removeSpaceNearNL; then the call of handleIncludes
Cleanup ==
    /\ pc = "cleanup"
    /\ processedFile' = removeSpaceNearNL(removeIndentation(replaceTabs(processedFile)))
    /\ pos' = 0
    /\ handledFiles' = {}
    /\ pc' = "includes"
    /\ UNCHANGED <<inputVars, resultConfigurations, it, result, getcfgsVars,
                   getcodeVars, expandVars, ub>>

\* the state after a turn of the loop of handleIncludes whose outcome is r
handleIncludesTurn(r) ==
    /\ processedFile' = r.code
    /\ pos' = r.pos
    /\ handledFiles' = r.handledFiles
    /\ pc' = IF r.done THEN "ifdefined" ELSE "includes"

\* one turn of the while loop of handleIncludes; handleIncludes returns when
\* no "#include" is found
HandleIncludes ==
    /\ pc = "includes"
    /\ handleIncludesTurn(handleIncludesStep(files, processedFile, pos, dirOf(filename),
                                             includePaths, handledFiles))
    /\ UNCHANGED <<inputVars, resultConfigurations, it, result, getcfgsVars,
                   getcodeVars, expandVars, ub>>

\* processedFile = replaceIfDefined(processedFile); then the call of getcfgs
ReplaceIfDefined ==
    /\ pc = "ifdefined"
    /\ processedFile' = replaceIfDefined(processedFile)
    /\ lines' = getlines(processedFile')
    /\ ret' = << <<>> >>
    /\ deflist' = <<>>
    /\ filelevel' = 0
    /\ pc' = "getcfgs"
    /\ UNCHANGED <<inputVars, includeVars, resultConfigurations, it, result, getcodeVars,
                   expandVars, ub>>

\* ----------------------------------------------------------------- getcfgs

\* a plausible slip: a token "0" is skipped like a token "1"
RECURSIVE joinDeflistNoBreak(_, _, _)
joinDeflistNoBreak(dl, k, def) ==
    IF k > Len(dl) THEN def
    ELSE IF dl[k] = <<"0">> \/ dl[k] = <<"1">> THEN joinDeflistNoBreak(dl, k + 1, def)
    ELSE joinDeflistNoBreak(dl, k + 1,
                            (IF def # <<>> THEN def \o <<";">> ELSE def) \o dl[k])

\* the configuration the for loop of getcfgs builds from the guard stack
RECURSIVE joinDeflist(_, _, _)
joinDeflist(dl, k, def) ==
    IF k > Len(dl) THEN def
    ELSE IF dl[k] = <<"0">> THEN def
    ELSE IF dl[k] = <<"1">> THEN joinDeflist(dl, k + 1, def)
    ELSE joinDeflist(dl, k + 1, (IF def # <<>> THEN def \o <<";">> ELSE def) \o dl[k])

\* the list with its last element removed / replaced
popBack(l) == SubSeq(l, 1, Len(l) - 1)
setBack(l, x) == Append(popBack(l), x)
back(l) == l[Len(l)]

\* is x an element of the list l
contains(l, x) == \E k \in 1..Len(l) : l[k] = x

\* a plausible slip: the new configuration is put at the front of the list
addConfigFront(r, c) == IF ~contains(r, c) THEN <<c>> \o r ELSE r

\* a plausible slip: the configuration is added without the test
addConfigAlways(r, c) == Append(r, c)

\* if (std::find(ret.begin(), ret.end(), def) == ret.end()) ret.push_back(def);
addConfig(r, c) == IF ~contains(r, c) THEN Append(r, c) ELSE r

\* a plausible slip: #endfile takes getcfgs back to the source file
endfileLevelTop(level) == 0

\* if (filelevel > 0) --filelevel;
endfileLevel(level) == IF level > 0 THEN level - 1 ELSE level

\* the body of the while loop of getcfgs for one line, below the #file
\* handling: [deflist, ret]
getcfgsLine(line, dl, r) ==
    LET def == getdef(line, TRUE) \o getdef(line, FALSE)
        dl1 == IF def # <<>>
               THEN Append(IF dl # <<>> /\ Find(line, H_ELIF_SP, 0) = 0
                           THEN popBack(dl) ELSE dl, def)
               ELSE dl
        c == joinDeflist(dl1, 1, <<>>)
        r1 == IF def # <<>> THEN addConfig(r, c) ELSE r
        dl2 == IF Find(line, H_ELSE, 0) = 0 /\ dl1 # <<>>
               THEN setBack(dl1, IF back(dl1) = <<"1">> THEN <<"0">> ELSE <<"1">>)
               ELSE dl1
        dl3 == IF Find(line, H_ENDIF, 0) = 0 /\ dl2 # <<>> THEN popBack(dl2) ELSE dl2
    IN  [deflist |-> dl3, ret |-> r1]

\* one turn of the while loop of getcfgs
GetcfgsLine ==
    /\ pc = "getcfgs"
    /\ lines # <<>>
    /\ LET line == Head(lines)
           r == getcfgsLine(line, deflist, ret)
       IN  IF Substr(line, 0, 6) = H_FILE_SP
           THEN /\ filelevel' = filelevel + 1
                /\ UNCHANGED <<deflist, ret>>
           ELSE IF line = H_ENDFILE
           THEN /\ filelevel' = endfileLevel(filelevel)
                /\ UNCHANGED <<deflist, ret>>
           ELSE IF filelevel > 0
           THEN UNCHANGED <<deflist, ret, filelevel>>
           ELSE /\ deflist' = r.deflist
                /\ ret' = r.ret
                /\ UNCHANGED filelevel
    /\ lines' = Tail(lines)
    /\ UNCHANGED <<pc, inputVars, includeVars, processedFile, resultConfigurations, it, result,
                   getcodeVars, expandVars, ub>>

\* return ret; resultConfigurations = getcfgs(processedFile); then the loop
\* of preprocess over the configurations starts
GetcfgsReturn ==
    /\ pc = "getcfgs"
    /\ lines = <<>>
    /\ resultConfigurations' = ret
    /\ it' = 1
    /\ pc' = "configs"
    /\ UNCHANGED <<inputVars, includeVars, processedFile, result, getcfgsVars, getcodeVars,
                   expandVars, ub>>

\* ----------------------------------------------------------------- getcode

\* the conjunction the for loop over matching_ifdef computes
allTrue(l) == \A k \in 1..Len(l) : l[k]

\* the configurations a caller passes to getcode directly
CfgUniverse == { <<>>, <<"A">>, <<"B">>, <<"A",";","B">>, <<"A","B">> }

\* the locals of getcode at its start
getcodeStart(c) ==
    /\ cfg' = c
    /\ match' = TRUE
    /\ matching_ifdef' = <<>>
    /\ matched_ifdef' = <<>>
    /\ out' = <<>>
    /\ lines' = getlines(processedFile)

\* result[*it] = getcode(data, *it, filename, errorLogger): the call
GetcodeCall ==
    /\ pc = "configs"
    /\ it <= Len(resultConfigurations)
    /\ getcodeStart(resultConfigurations[it])
    /\ pc' = "getcode"
    /\ UNCHANGED <<inputVars, includeVars, processedFile, resultConfigurations, it, result,
                   deflist, filelevel, ret, expandVars, ub>>

\* the loop of preprocess over the configurations is over
PreprocessReturn ==
    /\ pc = "configs"
    /\ it > Len(resultConfigurations)
    /\ pc' = "done"
    /\ it' = 0
    /\ UNCHANGED <<inputVars, includeVars, processedFile, resultConfigurations, result,
                   getcfgsVars, getcodeVars, expandVars, ub>>

\* a caller of the second entry point calls getcode(data, cfg, filename) with
\* a configuration of its own
GetcodeAny ==
    /\ pc = "done"
    /\ \E c \in CfgUniverse : getcodeStart(c)
    /\ pc' = "getcode"
    /\ UNCHANGED <<inputVars, includeVars, processedFile, resultConfigurations, it, result,
                   deflist, filelevel, ret, expandVars, ub>>

\* a plausible slip: #elif does not look at matched_ifdef.back()
getcodeStacksElifAlways(line, c, matching, matched) ==
    LET def == getdef(line, TRUE)
        ndef == getdef(line, FALSE)
    IN
    IF Find(line, H_ELIF_SP, 0) = 0 THEN
        IF match_cfg_def(c, def)
        THEN [matching |-> setBack(matching, TRUE), matched |-> setBack(matched, TRUE)]
        ELSE [matching |-> setBack(matching, FALSE), matched |-> matched]
    ELSE IF def # <<>> THEN
        [matching |-> Append(matching, match_cfg_def(c, def)),
         matched |-> Append(matched, match_cfg_def(c, def))]
    ELSE IF ndef # <<>> THEN
        [matching |-> Append(matching, ~match_cfg_def(c, ndef)),
         matched |-> Append(matched, ~match_cfg_def(c, ndef))]
    ELSE IF line = H_ELSE THEN
        [matching |-> IF matched # <<>> THEN setBack(matching, ~back(matched))
                      ELSE matching,
         matched |-> matched]
    ELSE IF Substr(line, 0, 6) = H_ENDIF THEN
        [matching |-> IF matching # <<>> THEN popBack(matching) ELSE matching,
         matched |-> IF matched # <<>> THEN popBack(matched) ELSE matched]
    ELSE [matching |-> matching, matched |-> matched]

\* the directive handling of one line: the stacks after it
\* [matching, matched]; the #elif of an empty stack is not handled here
getcodeStacks(line, c, matching, matched) ==
    LET def == getdef(line, TRUE)
        ndef == getdef(line, FALSE)
    IN
    IF Find(line, H_ELIF_SP, 0) = 0 THEN
        IF back(matched)
        THEN [matching |-> setBack(matching, FALSE), matched |-> matched]
        ELSE IF match_cfg_def(c, def)
        THEN [matching |-> setBack(matching, TRUE), matched |-> setBack(matched, TRUE)]
        ELSE [matching |-> matching, matched |-> matched]
    ELSE IF def # <<>> THEN
        [matching |-> Append(matching, match_cfg_def(c, def)),
         matched |-> Append(matched, match_cfg_def(c, def))]
    ELSE IF ndef # <<>> THEN
        [matching |-> Append(matching, ~match_cfg_def(c, ndef)),
         matched |-> Append(matched, ~match_cfg_def(c, ndef))]
    ELSE IF line = H_ELSE THEN
        [matching |-> IF matched # <<>> THEN setBack(matching, ~back(matched))
                      ELSE matching,
         matched |-> matched]
    ELSE IF Substr(line, 0, 6) = H_ENDIF THEN
        [matching |-> IF matching # <<>> THEN popBack(matching) ELSE matching,
         matched |-> IF matched # <<>> THEN popBack(matched) ELSE matched]
    ELSE [matching |-> matching, matched |-> matched]

\* a plausible slip: the test line[0] == '#' is missing, so the directives
\* of a selected branch are not erased
getcodeEmitKeepDirectives(line, m) ==
    IF \/ Find(line, H_FILE_Q, 0) = 0
       \/ Find(line, H_ENDFILE, 0) = 0
       \/ Find(line, H_DEFINE, 0) = 0
    THEN line
    ELSE IF ~m THEN <<>>
    ELSE line

\* a plausible slip: #define lines are not kept in a branch that is not
\* selected, and not as directives
getcodeEmitDropDefine(line, m) ==
    IF \/ Find(line, H_FILE_Q, 0) = 0
       \/ Find(line, H_ENDFILE, 0) = 0
    THEN line
    ELSE IF ~m \/ At(line, 0) = "#" THEN <<>>
    ELSE line

\* what is written to the stream for the line
getcodeEmit(line, m) ==
    IF \/ Find(line, H_FILE_Q, 0) = 0
       \/ Find(line, H_ENDFILE, 0) = 0
       \/ Find(line, H_DEFINE, 0) = 0
    THEN line
    ELSE IF ~m \/ At(line, 0) = "#" THEN <<>>
    ELSE line

\* one turn of the while loop of getcode.  An #elif met with an empty stack
\* calls back() of an empty std::list, which is undefined: the run goes on
\* with the stacks as they are, or it ends there.
GetcodeLine ==
    /\ pc = "getcode"
    /\ lines # <<>>
    /\ LET line == Head(lines)
           strayElif == Find(line, H_ELIF_SP, 0) = 0 /\ matched_ifdef = <<>>
           st == IF strayElif
                 THEN [matching |-> matching_ifdef, matched |-> matched_ifdef]
                 ELSE getcodeStacks(line, cfg, matching_ifdef, matched_ifdef)
           m == IF line # <<>> /\ line[1] = "#" THEN allTrue(st.matching) ELSE match
       IN  /\ matching_ifdef' = st.matching
           /\ matched_ifdef' = st.matched
           /\ match' = m
           /\ out' = out \o getcodeEmit(line, m) \o <<NL>>
           /\ ub' = (ub \/ strayElif)
           /\ \E crash \in BOOLEAN :
                pc' = IF strayElif /\ crash THEN "crashed" ELSE "getcode"
    /\ lines' = Tail(lines)
    /\ UNCHANGED <<inputVars, includeVars, processedFile, resultConfigurations, it, result,
                   deflist, filelevel, ret, cfg, expandVars>>

\* return expandMacros(ret.str(), filename, errorLogger): the call
GetcodeExpand ==
    /\ pc = "getcode"
    /\ lines = <<>>
    /\ code' = out
    /\ defpos' = 0
    /\ pc' = "expandMacros"
    /\ UNCHANGED <<inputVars, includeVars, processedFile, resultConfigurations, it, result,
                   getcfgsVars, getcodeVars, errorLog, ub>>

\* a plausible slip: the error is logged without the test of the pointer
reportErrAlways(log, logger, id) == Append(log, id)

\* if (errorLogger) errorLogger->reportErr(...): the log after it
reportErr(log, logger, id) == IF logger THEN Append(log, id) ELSE log

\* one turn of the outer while loop of expandMacros
ExpandMacros ==
    /\ pc = "expandMacros"
    /\ LET r == expandDefine(code, defpos)
       IN  /\ code' = r.code
           /\ defpos' = r.defpos
           /\ errorLog' = IF r.error
                          THEN reportErr(errorLog, errorLogger, "noQuoteCharPair")
                          ELSE errorLog
           /\ pc' = IF r.error THEN "return"
                    ELSE IF r.done THEN "undef" ELSE "expandMacros"
    /\ UNCHANGED <<inputVars, includeVars, processedFile, resultConfigurations, it, result,
                   getcfgsVars, getcodeVars, ub>>

\* the loop that removes the #undef lines; return code
RemoveUndef ==
    /\ pc = "undef"
    /\ code' = removeUndef(code, 0)
    /\ pc' = "return"
    /\ UNCHANGED <<inputVars, includeVars, processedFile, resultConfigurations, it, result,
                   getcfgsVars, getcodeVars, defpos, errorLog, ub>>

\* getcode has returned code: preprocess stores it in the map and goes to
\* the next configuration; a direct caller has its text
GetcodeReturn ==
    /\ pc = "return"
    /\ IF it > 0
       THEN /\ result' = [c \in DOMAIN result \cup {cfg} |->
                            IF c = cfg THEN code ELSE result[c]]
            /\ it' = it + 1
            /\ pc' = "configs"
       ELSE /\ pc' = "returned"
            /\ UNCHANGED <<result, it>>
    /\ UNCHANGED <<inputVars, includeVars, processedFile, resultConfigurations,
                   getcfgsVars, getcodeVars, expandVars, ub>>

\* a caller calls match_cfg_def(cfg, def) directly
MatchCfgDef ==
    /\ pc = "match"
    /\ match' = match_cfg_def(cfg, mdef)
    /\ pc' = "matched"
    /\ UNCHANGED <<inputVars, includeVars, processedFile, resultConfigurations, it, result,
                   getcfgsVars, cfg, matching_ifdef, matched_ifdef, out,
                   expandVars, ub>>

\* ------------------------------------------------------------ the programs

\* the whole pipeline
Next ==
    \/ Read
    \/ Cleanup
    \/ HandleIncludes
    \/ ReplaceIfDefined
    \/ GetcfgsLine
    \/ GetcfgsReturn
    \/ GetcodeCall
    \/ PreprocessReturn
    \/ GetcodeAny
    \/ GetcodeLine
    \/ GetcodeExpand
    \/ ExpandMacros
    \/ RemoveUndef
    \/ GetcodeReturn

\* the state after construction, for the input text s, the file system fs,
\* a caller with or without an ErrorLogger, the source file fname and the
\* include-search roots
InitCall(s, fs, logger, fname, roots) ==
    /\ pc = "read"
    /\ istr = s
    /\ filename = fname
    /\ includePaths = roots
    /\ files = fs
    /\ errorLogger = logger
    /\ mdef = <<>>
    /\ pos = 0
    /\ handledFiles = {}
    /\ processedFile = <<>>
    /\ resultConfigurations = <<>>
    /\ it = 1
    /\ result = <<>>
    /\ lines = <<>>
    /\ deflist = <<>>
    /\ filelevel = 0
    /\ ret = <<>>
    /\ cfg = <<>>
    /\ match = TRUE
    /\ matching_ifdef = <<>>
    /\ matched_ifdef = <<>>
    /\ out = <<>>
    /\ code = <<>>
    /\ defpos = 0
    /\ errorLog = <<>>
    /\ ub = FALSE

\* the state after construction, for the input text s, the file system fs
\* and a caller with or without an ErrorLogger: the source file a.c, no
\* include-search root
InitState(s, fs, logger) == InitCall(s, fs, logger, <<"a", ".", "c">>, <<>>)

\* the state after construction, for the input text s: no file but the
\* source file, an ErrorLogger supplied
InitWith(s) == InitState(s, <<>>, TRUE)

\* -------------------------------------------------------------- the inputs

\* all sequences over the set S of length at most n
RECURSIVE SeqsUpTo(_, _)
SeqsUpTo(S, n) ==
    IF n = 0 THEN { <<>> }
    ELSE LET shorter == SeqsUpTo(S, n - 1)
         IN  shorter \cup {Append(q, x) : q \in {r \in shorter : Len(r) = n - 1}, x \in S}

\* the text of the lines ls, every line ended by a newline
RECURSIVE joinLines(_)
joinLines(ls) == IF ls = <<>> THEN <<>> ELSE Head(ls) \o <<NL>> \o joinLines(Tail(ls))

\* scenario S1
S1Input == <<"#","i","f","d","e","f",SP,"A",NL,"x",NL,"#","e","l","s","e",NL,"y",NL,"#","e","n","d","i","f",NL>>
\* scenario S4
S4Input == <<"a",SP,BS,NL,"b",NL,"c",NL>>
\* scenario S5
S5Input == <<"#","i","f","d","e","f",SP,"A",NL,"#","i","f","d","e","f",SP,"B",NL,"a","b",NL,"#","e","n","d","i","f",NL,"#","e","n","d","i","f",NL>>
\* scenario S6
S6Input == <<DQ,"/","*","n","o","t",SP,"a",SP,"c","o","m","m","e","n","t","*","/",DQ,NL>>

\* a line splice between two spaces
SpliceSpacesInput == <<"a",SP,BS,NL,SP,"b",NL>>

\* the characters of the generated raw inputs of the Reader
ReadAlphabet == {"a", SP, BS, NL, "/", "*", DQ, "#", "("}

\* raw inputs of the Reader: every text over ReadAlphabet of at most
\* MaxReadLen characters, ended by a newline, and the scenarios
ReadInputs ==
    {q \o <<NL>> : q \in SeqsUpTo(ReadAlphabet, MaxReadLen)} \cup {S4Input, S6Input, SpliceSpacesInput}

\* the lines of the generated conditional-compilation inputs
CondLines == {
    <<"#","i","f","d","e","f",SP,"A">>,
    <<"#","i","f","d","e","f",SP,"B">>,
    <<"#","i","f","n","d","e","f",SP,"A">>,
    <<"#","e","l","i","f",SP,"B">>,
    <<"#","e","l","s","e">>,
    <<"#","e","n","d","i","f">>,
    <<"x">> }

\* a block nested in an #ifndef block; an #elif branch of an #ifndef chain
NestedIfndefInput == <<"#","i","f","n","d","e","f",SP,"A",NL,"#","i","f","d","e","f",SP,"B",NL,"x",NL,"#","e","n","d","i","f",NL,"#","e","n","d","i","f",NL>>
IfndefElifInput == <<"#","i","f","n","d","e","f",SP,"A",NL,"#","e","l","i","f",SP,"B",NL,"x",NL,"#","e","n","d","i","f",NL>>

CondInputs ==
    {joinLines(ls) : ls \in SeqsUpTo(CondLines, MaxCondLines)}
        \cup {S1Input, S5Input, NestedIfndefInput, IfndefElifInput}

\* the #define lines of the generated macro inputs
D_ID == <<"#","d","e","f","i","n","e",SP,"I","D","(","x",")",SP,"x">>
D_L == <<"#","d","e","f","i","n","e",SP,"L","(","f","m","t",",",SP,".",".",".",")",SP,"f","(","f","m","t",",",SP,"#","#","_","_","V","A","_","A","R","G","S","_","_",")">>
D_S == <<"#","d","e","f","i","n","e",SP,"S","(","x",")",SP,"#","x">>
MacroDefines == {D_ID, D_L, D_S}

\* arguments of the identity macro: plain text, text with spaces, literals
\* with spaces, comment markers and backslash escapes
ArgLiterals == {
    <<DQ,"a",SP,SP,"b",DQ>>,
    <<DQ,"a",BS,DQ,"b",DQ>>,
    <<SQ,"/","*",SQ>> }
IdArgs == ArgLiterals \cup {
    <<"a">>,
    <<"a",SP,"b">>,
    <<SP,"a">> }

\* the invocation NAME(arg)
invoke(name, arg) == name \o <<"(">> \o arg \o <<")">>

\* the lines that follow the #define line of a generated macro input (the
\* invocation of the third line is spread over two lines)
MacroInvocations ==
    {invoke(<<"I","D">>, a) : a \in IdArgs} \cup {
    <<"I","D","(","a",NL,"b",")">>,
    <<"L","(",DQ,"a",DQ,")">>,
    <<"L","(",DQ,"b",DQ,",",SP,"1",")">>,
    <<"S","(","h","i",")">> }

\* a macro used before and after its #undef line
UndefInput == <<"#","d","e","f","i","n","e",SP,"A",SP,"1",NL,"A",NL,"#","u","n","d","e","f",SP,"A",NL,"A",NL>>

\* a macro whose body is its own name; two macros that name each other
SelfRefInput == <<"#","d","e","f","i","n","e",SP,"A",SP,"A",NL,"A",NL>>
MutualRefInput == <<"#","d","e","f","i","n","e",SP,"A",SP,"B",NL,"#","d","e","f","i","n","e",SP,"B",SP,"A",NL,"A",NL>>

MacroInputs ==
    {d \o <<NL>> \o joinLines(ls) :
        d \in MacroDefines,
        ls \in {q \in SeqsUpTo(MacroInvocations, MaxMacroLines) : q # <<>>}}
        \cup {UndefInput, SelfRefInput, MutualRefInput}

\* the #define line and the lines of the generated inputs with literals that
\* are closed or left open
D_A == <<"#","d","e","f","i","n","e",SP,"A",SP,"1">>
LiteralLines == {
    <<DQ,"x">>,
    <<SQ>>,
    <<DQ,"x",DQ>>,
    <<DQ,BS,DQ>>,
    <<"A">> }

LiteralInputs ==
    {D_A \o <<NL>> \o joinLines(ls) : ls \in SeqsUpTo(LiteralLines, MaxLiteralLines)}

\* a #define followed by a string whose closing delimiter is missing
UntermStringInput == <<"#","d","e","f","i","n","e",SP,"A",SP,"1",NL,DQ,"x",NL>>

\* the lines of the generated source files with #include directives
IncLines == {
    <<"#","i","n","c","l","u","d","e",SP,DQ,"h",".","h",DQ>>,
    <<"#","i","n","c","l","u","d","e",SP,DQ,"H",".","h",DQ>>,
    <<"#","i","n","c","l","u","d","e",SP,DQ,"g",".","h",DQ>>,
    <<"#","i","n","c","l","u","d","e",SP,DQ,"e",".","h",DQ>>,
    <<"#","i","n","c","l","u","d","e",SP,DQ,"m",".","h",DQ>>,
    <<"#","d","e","f","i","n","e",SP,"e","n","d","f","i","l","e",SP,"1">>,
    <<"#","d","e","f","i","n","e",SP,"f","i","l","e",SP,"1">>,
    <<"#","i","f","d","e","f",SP,"A">>,
    <<"x">> }

IncInputs == {joinLines(ls) : ls \in SeqsUpTo(IncLines, MaxIncLines)}

\* the names of the header files
N_h == <<"h",".","h">>
N_H == <<"H",".","h">>
N_g == <<"g",".","h">>
N_e == <<"e",".","h">>

\* a header that includes itself, a header of the same name in upper case,
\* an empty header
SelfIncludeFiles ==
    [n \in {N_h, N_H, N_e} |->
        IF n = N_h THEN <<"#","i","n","c","l","u","d","e",SP,DQ,"h",".","h",DQ,NL,"y",NL>>
        ELSE IF n = N_H THEN <<"w",NL>>
        ELSE <<>>]

\* two headers that include each other
CyclicFiles ==
    [n \in {N_h, N_g} |->
        IF n = N_h THEN <<"#","i","n","c","l","u","d","e",SP,DQ,"g",".","h",DQ,NL,"y",NL>>
        ELSE <<"#","i","n","c","l","u","d","e",SP,DQ,"h",".","h",DQ,NL,"z",NL>>]

\* headers with conditionals: h.h includes g.h and goes on with a guard
GuardedFiles ==
    [n \in {N_h, N_g} |->
        IF n = N_h THEN <<"#","i","n","c","l","u","d","e",SP,DQ,"g",".","h",DQ,NL,
                          "#","i","f","d","e","f",SP,"B",NL,"y",NL,
                          "#","e","n","d","i","f",NL>>
        ELSE <<"#","i","f","d","e","f",SP,"C",NL,"z",NL,"#","e","n","d","i","f",NL>>]

FileSystems == {SelfIncludeFiles, CyclicFiles, GuardedFiles}

\* the lines of the generated source files whose headers are in directories
PathLines == {
    <<"#","i","n","c","l","u","d","e",SP,DQ,"d","/","h",".","h",DQ>>,
    <<"#","i","n","c","l","u","d","e",SP,DQ,"m",".","h",DQ>>,
    <<"#","i","n","c","l","u","d","e",SP,DQ,"g",".","h",DQ>>,
    <<"x">> }

PathInputs == {joinLines(ls) : ls \in SeqsUpTo(PathLines, MaxPathLines)}

\* the source file s/a.c and the search roots i/ and j/
N_src == <<"s","/","a",".","c">>
R_i == <<"i","/">>
R_j == <<"j","/">>
PathRoots == { <<>>, <<R_i>>, <<R_i, R_j>>, <<R_j, R_i>> }

\* the header s/d/h.h includes g.h, which is in its directory s/d/ and in
\* the directory s/ of the source file; m.h is in both search roots
N_sdh == <<"s","/","d","/","h",".","h">>
N_sdg == <<"s","/","d","/","g",".","h">>
N_sg == <<"s","/","g",".","h">>
N_im == <<"i","/","m",".","h">>
N_jm == <<"j","/","m",".","h">>
PathFiles ==
    [n \in {N_sdh, N_sdg, N_sg, N_im, N_jm} |->
        IF n = N_sdh THEN <<"#","i","n","c","l","u","d","e",SP,DQ,"g",".","h",DQ,NL,"y",NL>>
        ELSE IF n = N_sdg THEN <<"z",NL>>
        ELSE IF n = N_sg THEN <<"w",NL>>
        ELSE IF n = N_im THEN <<"m",NL>>
        ELSE <<"n",NL>>]

\* the lines of the generated texts for getcfgs alone, with the guards 0
\* and 1
GuardLines == {
    <<"#","i","f","d","e","f",SP,"A">>,
    <<"#","i","f","d","e","f",SP,"B">>,
    <<"#","i","f",SP,"0">>,
    <<"#","i","f",SP,"1">>,
    <<"#","i","f","n","d","e","f",SP,"A">>,
    <<"#","e","l","i","f",SP,"B">>,
    <<"#","e","l","s","e">>,
    <<"#","e","n","d","i","f">> }

GuardInputs == {joinLines(ls) : ls \in SeqsUpTo(GuardLines, MaxGuardLines)}

\* the arguments of the direct calls of match_cfg_def
MatchCfgs == SeqsUpTo({"A", "B", ";"}, MaxCfgLen)
MatchDefs == { <<"0">>, <<"1">>, <<"A">>, <<"B">>, <<"A","B">>, <<"A",";","B">> }

\* ------------------------------------------------------ the specifications

\* the Reader alone, on raw character streams
InitRead == \E s \in ReadInputs : InitWith(s)
NextRead == Read
SpecRead == InitRead /\ [][NextRead]_vars

\* the pipeline on conditional-compilation inputs
Init == \E s \in CondInputs : InitWith(s)
Spec == Init /\ [][Next]_vars

\* the pipeline on macro inputs
InitMacro == \E s \in MacroInputs : InitWith(s)
SpecMacro == InitMacro /\ [][Next]_vars

\* the pipeline on inputs with literals, for a caller with and without an
\* ErrorLogger
InitLiteral == \E s \in LiteralInputs, logger \in BOOLEAN : InitState(s, <<>>, logger)
SpecLiteral == InitLiteral /\ [][Next]_vars

\* the pipeline on source files with #include directives
InitInc == \E s \in IncInputs, fs \in FileSystems : InitState(s, fs, TRUE)
SpecInc == InitInc /\ [][Next]_vars

\* the pipeline on source files in a directory, with include-search roots
InitPath == \E s \in PathInputs, roots \in PathRoots :
                InitCall(s, PathFiles, TRUE, N_src, roots)
SpecPath == InitPath /\ [][Next]_vars

\* getcfgs alone, called with a text of conditional directives
InitCfgs ==
    \E s \in GuardInputs :
        /\ pc = "getcfgs"
        /\ processedFile = s
        /\ lines = getlines(s)
        /\ ret = << <<>> >>
        /\ deflist = <<>>
        /\ filelevel = 0
        /\ istr = <<>>
        /\ filename = <<"a", ".", "c">>
        /\ includePaths = <<>>
        /\ files = <<>>
        /\ errorLogger = TRUE
        /\ mdef = <<>>
        /\ pos = 0
        /\ handledFiles = {}
        /\ resultConfigurations = <<>>
        /\ it = 1
        /\ result = <<>>
        /\ cfg = <<>>
        /\ match = TRUE
        /\ matching_ifdef = <<>>
        /\ matched_ifdef = <<>>
        /\ out = <<>>
        /\ code = <<>>
        /\ defpos = 0
        /\ errorLog = <<>>
        /\ ub = FALSE
NextCfgs == GetcfgsLine \/ GetcfgsReturn
SpecCfgs == InitCfgs /\ [][NextCfgs]_vars

\* match_cfg_def alone
InitMatch ==
    \E c \in MatchCfgs, d \in MatchDefs :
        /\ pc = "match"
        /\ cfg = c
        /\ mdef = d
        /\ istr = <<>>
        /\ filename = <<"a", ".", "c">>
        /\ includePaths = <<>>
        /\ files = <<>>
        /\ errorLogger = TRUE
        /\ pos = 0
        /\ handledFiles = {}
        /\ processedFile = <<>>
        /\ resultConfigurations = <<>>
        /\ it = 0
        /\ result = <<>>
        /\ lines = <<>>
        /\ deflist = <<>>
        /\ filelevel = 0
        /\ ret = <<>>
        /\ match = TRUE
        /\ matching_ifdef = <<>>
        /\ matched_ifdef = <<>>
        /\ out = <<>>
        /\ code = <<>>
        /\ defpos = 0
        /\ errorLog = <<>>
        /\ ub = FALSE
NextMatch == MatchCfgDef
SpecMatch == InitMatch /\ [][NextMatch]_vars

\* ================================================================ the claims

Empty == <<>>
CfgA == <<"A">>
CfgAB == <<"A",";","B">>

\* the configurations whose text is in the map
HasKey(c) == c \in DOMAIN result

\* ---- C1 (stated; the code violates it)
\* C1: line-number stability: for any text data produced by preprocess and
\* ended by a newline, and every configuration, the text getcode returns
\* (projection, then macro expansion) has as many newlines as data.
C1_LineCountStable ==
    (pc = "return" /\ processedFile # <<>> /\ back(processedFile) = NL)
        => Count(code, NL) = Count(processedFile, NL)

\* ---- C2
\* C2: the list of configurations getcfgs builds and returns always holds the
\* baseline "" as its first entry, and the map preprocess has built has the
\* key "".
C2_BaselineFirst ==
    /\ pc = "getcfgs" => (ret # <<>> /\ ret[1] = Empty)
    /\ pc \in {"configs", "getcode", "expandMacros", "undef", "return", "done",
               "returned"}
          => (resultConfigurations # <<>> /\ resultConfigurations[1] = Empty)
    /\ pc \in {"done", "returned"} => HasKey(Empty)

\* getcfgs has returned a list of several configurations and the map is built
C2_Witness ==
    pc = "done" /\ Len(resultConfigurations) >= 3 /\ HasKey(Empty)

\* ---- C3
S1_Out_Baseline == <<NL,NL,NL,"y",NL,NL>>
S1_Out_A == <<NL,"x",NL,NL,NL,NL>>
S1_Claimed_Baseline == <<NL,NL,"y",NL,NL>>
S1_Claimed_A == <<NL,"x",NL,NL,NL>>

\* C3 as amended: for the input of scenario S1 the configurations are exactly
\* ["", "A"]; getcode with "" returns \n\n\ny\n\n and getcode with "A"
\* returns \nx\n\n\n\n (one line for each of the five input lines).
C3_S1 ==
    (istr = S1Input /\ pc = "done")
        => /\ resultConfigurations = <<Empty, CfgA>>
           /\ DOMAIN result = {Empty, CfgA}
           /\ result[Empty] = S1_Out_Baseline
           /\ result[CfgA] = S1_Out_A

\* C3 as stated: getcode with "" returns \n\ny\n\n and getcode with "A"
\* returns \nx\n\n\n.
C3_S1_AsStated ==
    (istr = S1Input /\ pc = "done")
        => /\ resultConfigurations = <<Empty, CfgA>>
           /\ result[Empty] = S1_Claimed_Baseline
           /\ result[CfgA] = S1_Claimed_A

\* preprocess has run on the input of S1
C3_Witness == istr = S1Input /\ pc = "done" /\ HasKey(CfgA)

\* ---- C4
\* C4: for the input of scenario S5 the configurations are exactly
\* ["", "A", "A;B"]; getcode with "A;B" keeps the line ab (the third line);
\* getcode with "A" and with "" leave an empty line in its place.
C4_S5 ==
    (istr = S5Input /\ pc = "done")
        => /\ resultConfigurations = <<Empty, CfgA, CfgAB>>
           /\ getlines(result[CfgAB])[3] = <<"a", "b">>
           /\ getlines(result[CfgA]) = <<Empty, Empty, Empty, Empty, Empty>>
           /\ getlines(result[Empty]) = <<Empty, Empty, Empty, Empty, Empty>>

\* preprocess has run on the input of S5
C4_Witness == istr = S5Input /\ pc = "done" /\ HasKey(CfgAB)

\* ---- C5 (stated; the code violates it)
\* C5: the Reader is idempotent: for every input ended by a newline, reading
\* what read returned gives the same text again.
C5_ReadIdempotent ==
    (pc = "cleanup" /\ istr # <<>> /\ back(istr) = NL)
        => read(processedFile) = processedFile

\* ---- C6 (stated; the code violates it)
\* C6: a string or character literal of the input is found unchanged in the
\* text the Reader returns and in the text getcode returns, also when it is
\* the argument of a function-like macro.
C6_LiteralsOpaque ==
    \A lit \in ArgLiterals :
        Find(istr, lit, 0) # npos
            => /\ pc = "cleanup" => Find(processedFile, lit, 0) # npos
               /\ pc = "return" => Find(code, lit, 0) # npos

\* ---- C7 (stated; the code violates it)
\* the stack dl with its entries in the order f
reorder(dl, f) == [k \in 1..Len(dl) |-> dl[f[k]]]

\* C7: two guard stacks with the same multiset of names, in whatever nesting
\* order, give the same configuration string: every reordering of the guard
\* stack of getcfgs gives the configuration the stack itself gives.
C7_OrderIrrelevant ==
    pc = "getcfgs"
        => \A f \in Permutations(1..Len(deflist)) :
              joinDeflist(reorder(deflist, f), 1, <<>>) = joinDeflist(deflist, 1, <<>>)

\* ---- C8 (stated; the code violates it)
\* arg without its leading run of spaces
dropLeadingSpaces(arg) ==
    LET p == FindFirstNotOf(arg, {SP})
    IN  IF p = npos THEN <<>> ELSE SubstrFrom(arg, p)

IdInput(arg) == D_ID \o <<NL>> \o invoke(<<"I","D">>, arg) \o <<NL>>

\* C8: after #define ID(x) x the invocation ID(arg) expands to arg verbatim,
\* only a leading run of spaces being dropped.
C8_IdentityMacro ==
    \A arg \in IdArgs :
        (istr = IdInput(arg) /\ pc = "done")
            => result[Empty] = <<NL>> \o dropLeadingSpaces(arg) \o <<NL>>

\* ---- C9 (stated; the code violates it)
S3Input == <<"#","d","e","f","i","n","e",SP,"L","(","f","m","t",",",SP,".",".",".",")",SP,"f","(","f","m","t",",",SP,"#","#","_","_","V","A","_","A","R","G","S","_","_",")",NL,"L","(",DQ,"a",DQ,")",NL,"L","(",DQ,"b",DQ,",",SP,"1",")",NL>>
S3_First == <<"f","(",DQ,"a",DQ,")">>
S3_Second == <<"f","(",DQ,"b",DQ,",",SP,"1",")">>

\* C9: with #define L(fmt, ...) f(fmt, ##__VA_ARGS__), L("a") expands to
\* f("a") and L("b", 1) expands to f("b", 1).
C9_S3 ==
    (istr = S3Input /\ pc = "done")
        => /\ Find(result[Empty], S3_First, 0) # npos
           /\ Find(result[Empty], S3_Second, 0) # npos

\* ---- C10
S4_Out == <<"a",SP,"b",NL,NL,"c",NL>>
S4_Claimed == <<"a","b",NL,NL,"c",NL>>

\* C10 as amended: the Reader applied to the input of scenario S4 returns
\* "a b\n\nc\n": the backslash and the newline are removed, the space before
\* them stays, and one deferred newline follows the next real newline.
C10_S4 == (istr = S4Input /\ pc = "cleanup") => processedFile = S4_Out

\* C10 as stated: the Reader returns "ab\n\nc\n".
C10_S4_AsStated == (istr = S4Input /\ pc = "cleanup") => processedFile = S4_Claimed

\* the Reader has read the input of S4
C10_Witness == istr = S4Input /\ pc = "cleanup" /\ Count(processedFile, NL) = 3

\* ---- C11
NoQuoteCharPair == "noQuoteCharPair"

\* is a literal of the text left open at its end: q is the delimiter of the
\* literal the character at k (1-based) is in, "" outside a literal
RECURSIVE openLiteral(_, _, _)
openLiteral(text, k, q) ==
    IF k > Len(text) THEN q # ""
    ELSE IF q = "" THEN openLiteral(text, k + 1,
                                    IF text[k] \in {DQ, SQ} THEN text[k] ELSE "")
    ELSE IF text[k] = BS THEN openLiteral(text, k + 2, q)
    ELSE openLiteral(text, k + 1, IF text[k] = q THEN "" ELSE q)

\* the errors reported by the calls of getcode so far, the call that is
\* returning included, when each of them has reported n errors
errorsOfCalls(n) == IF it = 1 THEN n ELSE 2 * n

consumed ==
    LET ls == getlines(processedFile)
    IN  SubSeq(ls, 1, Len(ls) - Len(lines))

\* The chains of conditionals that are open after a sequence of lines, with
\* the stacks of getcode: for every open chain sel is the number of its
\* branches that were selected (matching.top true after the line that opens
\* the branch) and els whether its #else has been met; ok is FALSE once a
\* directive has been met that no well-formed chain allows.
chainInit == [matching |-> <<>>, matched |-> <<>>, chains |-> <<>>, ok |-> TRUE]

chainStep(st, line, c) ==
    LET opens == getdef(line, TRUE) # <<>> \/ getdef(line, FALSE) # <<>>
        isElif == Find(line, H_ELIF_SP, 0) = 0
        isElse == line = H_ELSE
        isEndif == Substr(line, 0, 6) = H_ENDIF
        stray == (isElif \/ isElse \/ isEndif) /\ st.chains = <<>>
        afterElse == (isElif \/ isElse) /\ st.chains # <<>> /\ back(st.chains).els
        ns == IF isElif /\ st.matched = <<>>
              THEN [matching |-> st.matching, matched |-> st.matched]
              ELSE getcodeStacks(line, c, st.matching, st.matched)
        one == IF ns.matching # <<>> /\ back(ns.matching) THEN 1 ELSE 0
        ch == IF stray THEN st.chains
              ELSE IF isElif
                   THEN setBack(st.chains, [sel |-> back(st.chains).sel + one,
                                            els |-> back(st.chains).els])
              ELSE IF opens THEN Append(st.chains, [sel |-> one, els |-> FALSE])
              ELSE IF isElse
                   THEN setBack(st.chains, [sel |-> back(st.chains).sel + one,
                                            els |-> TRUE])
              ELSE IF isEndif THEN popBack(st.chains)
              ELSE st.chains
    IN  [matching |-> ns.matching, matched |-> ns.matched, chains |-> ch,
         ok |-> st.ok /\ ~stray /\ ~afterElse]

RECURSIVE chainFold(_, _, _)
chainFold(st, ls, c) ==
    IF ls = <<>> THEN st ELSE chainFold(chainStep(st, Head(ls), c), Tail(ls), c)

\* C12: branch exclusivity: while getcode reads well-formed chains, the
\* stack it holds is the stack of the chains, at most one branch of every
\* open chain has been selected, and exactly one once its #else has been met.
C12_BranchExclusive ==
    pc = "getcode"
        => LET st == chainFold(chainInit, consumed, cfg)
           IN  st.ok
                 => /\ st.matching = matching_ifdef
                    /\ \A k \in 1..Len(st.chains) :
                          /\ st.chains[k].sel <= 1
                          /\ st.chains[k].els => st.chains[k].sel = 1

\* getcode has read #ifdef, #elif and #else of a chain, the configuration
\* matching both guards
C12_Witness ==
    /\ pc = "getcode"
    /\ cfg = CfgAB
    /\ Len(consumed) = 3
    /\ LET st == chainFold(chainInit, consumed, cfg)
       IN  st.ok /\ Len(st.chains) = 1 /\ st.chains[1].els /\ st.chains[1].sel = 1

\* ---- C13 (stated; the code violates it)
\* is the line one of code, not a directive and not empty
isCodeLine(line) == line # <<>> /\ line[1] # "#"

\* C13: for a source file whose chains are well-formed and closed, every
\* line of code is kept by getcode under at least one of the configurations
\* getcfgs has returned.
C13_EveryLineCovered ==
    (pc = "done" /\ ~ub)
        => LET ls == getlines(processedFile)
               st == chainFold(chainInit, ls, Empty)
           IN  (st.ok /\ st.chains = <<>>)
                 => \A k \in 1..Len(ls) :
                       isCodeLine(ls[k])
                         => \E c \in DOMAIN result : getlines(result[c])[k] = ls[k]

\* ---- C14 (stated; the code violates it)
\* C14: getcode never reads or writes the top of an empty matching or matched
\* stack, whatever stray directive it meets, and goes on to the next line.
C14_StrayTolerated == ~ub /\ pc # "crashed"

\* ---- C15 (stated; the code violates it)
\* C15: for #define A 1, A, #undef A, A the text getcode returns has the
\* first A expanded (line 2 is 1) and the A after the #undef line left as
\* it is (line 4 is A).
C15_UndefStopsExpansion ==
    (istr = UndefInput /\ pc = "return")
        => /\ getlines(code)[2] = <<"1">>
           /\ getlines(code)[4] = <<"A">>

\* ---- C16 (stated; the code violates it)
\* is the line a file-span marker
isMarker(line) == Find(line, H_FILE_Q, 0) = 0 \/ line = H_ENDFILE

\* C16: every #file "<path>" line and every #endfile line of the text after
\* inclusion is found unchanged on the same line of the text getcode returns.
C16_MarkersSurvive ==
    (pc = "return" /\ errorLog = Empty)
        => LET ls == getlines(processedFile)
               os == getlines(code)
           IN  \A k \in 1..Len(ls) :
                  isMarker(ls[k]) => (k <= Len(os) /\ os[k] = ls[k])

\* ---- C17
\* the line the projection step is to write for line, allSelected being
\* whether all entries of the matching stack are true
projected(line, allSelected) ==
    IF \/ Find(line, H_DEFINE, 0) = 0
       \/ Find(line, H_FILE_Q, 0) = 0
       \/ Find(line, H_ENDFILE, 0) = 0
    THEN line
    ELSE IF line # <<>> /\ line[1] = "#" THEN <<>>
    ELSE IF allSelected THEN line
    ELSE <<>>

\* C17: the line getcode has just written is the line it has just read if
\* that begins with #define, #file " or #endfile; it is empty for any other
\* line that begins with #; and a line of code is written unchanged iff all
\* entries of the matching stack are true.
C17_Projection ==
    (pc = "getcode" /\ consumed # <<>>)
        => /\ Len(getlines(out)) = Len(consumed)
           /\ back(getlines(out)) = projected(back(consumed), allTrue(matching_ifdef))
           /\ match = allTrue(matching_ifdef)

\* getcode has kept a #file line inside a branch that is not selected and
\* has erased the #ifdef line before it
C17_Witness ==
    /\ pc = "getcode"
    /\ Len(consumed) >= 2
    /\ ~allTrue(matching_ifdef)
    /\ Find(back(consumed), H_FILE_Q, 0) = 0
    /\ back(getlines(out)) = back(consumed)
    /\ getlines(out)[1] = Empty

\* ---- C18
\* the tokens of cfg between its semicolons
RECURSIVE cfgTokens(_)
cfgTokens(c) ==
    LET p == Find(c, <<";">>, 0)
    IN  IF c = <<>> THEN {}
        ELSE IF p = npos THEN {c}
        ELSE {Substr(c, 0, p)} \cup cfgTokens(SubstrFrom(c, p + 1))

\* C18: match_cfg_def(cfg, d) is false for d = "0", true for d = "1", and
\* otherwise true iff d is one of the tokens of cfg between its semicolons.
C18_MatchCfgDef ==
    pc = "matched"
        => match = (IF mdef = <<"0">> THEN FALSE
                    ELSE IF mdef = <<"1">> THEN TRUE
                    ELSE mdef \in cfgTokens(cfg))

\* match_cfg_def has found the second token and has refused a prefix
C18_Witness ==
    /\ pc = "matched"
    /\ cfg = <<"A", ";", "B">>
    /\ mdef = <<"B">>
    /\ match

\* ---- C19
\* the name with its upper-case letters turned to lower case
folded(name) == [k \in 1..Len(name) |-> tolower(name[k])]

\* the number of lines of ls that are the marker #file "<name>" of a header
\* whose name folds to n
RECURSIVE spliced(_, _)
spliced(ls, n) ==
    IF ls = <<>> THEN 0
    ELSE (IF Find(Head(ls), H_FILE_Q, 0) = 0
             /\ folded(getHeaderFileName(Head(ls))) = n
          THEN 1 ELSE 0) + spliced(Tail(ls), n)

\* C19: handleIncludes ends for headers that include themselves or each
\* other; after it no #include line is left, and every header name, folded
\* to lower case, has been spliced in at most once.
C19_SplicedOnce ==
    /\ \A n \in DOMAIN files : spliced(getlines(processedFile), folded(n)) <= 1
    /\ pc = "ifdefined"
          => \A k \in 1..Len(getlines(processedFile)) :
                Find(getlines(processedFile)[k], H_INCLUDE, 0) # 0

\* the number of places at or after from where "#include" is found in code
RECURSIVE includesLeft(_, _)
includesLeft(c, from) ==
    LET p == Find(c, H_INCLUDE, from)
    IN  IF p = npos THEN 0 ELSE 1 + includesLeft(c, p + 1)

\* the header names, folded, that handleIncludes has not handled yet
unhandled(handled) == {folded(n) : n \in DOMAIN files} \ handled

\* a turn of the loop of handleIncludes either ends the loop or splices in a
\* header whose name was not handled before, or else leaves fewer "#include"
\* to look at and no header less handled: the loop cannot go on for ever
C19_LoopDescends ==
    pc = "includes"
        => \/ pc' = "ifdefined"
           \/ Cardinality(unhandled(handledFiles')) < Cardinality(unhandled(handledFiles))
           \/ /\ unhandled(handledFiles') = unhandled(handledFiles)
              /\ includesLeft(processedFile', pos') < includesLeft(processedFile, pos)

C19_IncludeGuard == []C19_SplicedOnce /\ [][C19_LoopDescends]_vars

\* handleIncludes has spliced in the two headers that include each other
C19_Witness ==
    /\ pc = "ifdefined"
    /\ files = CyclicFiles
    /\ spliced(getlines(processedFile), N_h) = 1
    /\ spliced(getlines(processedFile), N_g) = 1

\* ---- C20
\* the depth of #file nesting after the lines ls, from depth d; -1 once an
\* #endfile line has been met at depth 0
RECURSIVE fileDepth(_, _)
fileDepth(ls, d) ==
    IF ls = <<>> \/ d < 0 THEN d
    ELSE IF Find(Head(ls), H_FILE_Q, 0) = 0 THEN fileDepth(Tail(ls), d + 1)
    ELSE IF Head(ls) = H_ENDFILE THEN fileDepth(Tail(ls), d - 1)
    ELSE fileDepth(Tail(ls), d)

\* C20: after handleIncludes the #endfile lines never outnumber the #file
\* lines read so far, and at the end the two numbers are equal.
C20_MarkersBalanced ==
    pc = "ifdefined" => fileDepth(getlines(processedFile), 0) = 0

\* handleIncludes has spliced in a header inside a header
C20_Witness ==
    /\ pc = "ifdefined"
    /\ \E k \in 1..(Len(getlines(processedFile)) - 1) :
          /\ Find(getlines(processedFile)[k], H_FILE_Q, 0) = 0
          /\ Find(getlines(processedFile)[k + 1], H_FILE_Q, 0) = 0
    /\ fileDepth(getlines(processedFile), 0) = 0

\* ---------------------------------------------------------------- C21

\* the file the name fn stands for when it is included from a file of the
\* directory dir: the first search root that has it, else the directory
rootsWith(fn) == {k \in 1..Len(includePaths) : (includePaths[k] \o fn) \in DOMAIN files}
firstRoot(fn) == CHOOSE k \in rootsWith(fn) : \A j \in rootsWith(fn) : k <= j
resolved(fn, dir) ==
    IF rootsWith(fn) # {} THEN includePaths[firstRoot(fn)] \o fn ELSE dir \o fn

\* is name what some header name resolves to when included from the file
\* including
resolvedFrom(name, including) ==
    \E k \in 1..Len(name) :
        resolved(SubSeq(name, k, Len(name)), dirOf(including)) = name

\* the name in a line #file "name"
markerName(line) == getHeaderFileName(line)

\* every marker of the lines ls names a file resolved from the file whose
\* text the marker is in; open is the stack of the files whose text is open
RECURSIVE resolvedInOrder(_, _)
resolvedInOrder(ls, open) ==
    IF ls = <<>> THEN TRUE
    ELSE IF Substr(Head(ls), 0, 6) = H_FILE_SP
        THEN /\ resolvedFrom(markerName(Head(ls)), back(open))
             /\ resolvedInOrder(Tail(ls), Append(open, markerName(Head(ls))))
    ELSE IF Head(ls) = H_ENDFILE /\ Len(open) > 1
        THEN resolvedInOrder(Tail(ls), popBack(open))
    ELSE resolvedInOrder(Tail(ls), open)

\* C21: when handleIncludes has returned, every header spliced into the text
\* is the file its name resolves to: the first include-search root that has
\* it and, when no root has it, the directory of the file whose text holds
\* the #include (the source file, or the header for a nested #include).
C21_ResolutionOrder ==
    pc = "ifdefined" => resolvedInOrder(getlines(processedFile), <<filename>>)

\* ---------------------------------------------------------------- C22

\* the lines of ls that are not between a #file line and its matching
\* #endfile line, and are no such line; d is the depth of #file nesting
RECURSIVE topLevel(_, _)
topLevel(ls, d) ==
    IF ls = <<>> THEN <<>>
    ELSE IF Substr(Head(ls), 0, 6) = H_FILE_SP THEN topLevel(Tail(ls), d + 1)
    ELSE IF Head(ls) = H_ENDFILE THEN topLevel(Tail(ls), IF d > 0 THEN d - 1 ELSE 0)
    ELSE IF d > 0 THEN topLevel(Tail(ls), d)
    ELSE <<Head(ls)>> \o topLevel(Tail(ls), 0)

\* the guard stack and the configurations after the lines ls, all of them
\* taken as lines of the source file
RECURSIVE cfgsFold(_, _)
cfgsFold(ls, st) ==
    IF ls = <<>> THEN st
    ELSE cfgsFold(Tail(ls), getcfgsLine(Head(ls), st.deflist, st.ret))

\* C22: at every point of getcfgs the guard stack and the configuration
\* list are what the lines of the source file alone give: the lines between
\* a #file marker and its matching #endfile push, replace, flip and pop
\* nothing and add no configuration, so the stack after the #endfile is the
\* stack before the #file.
C22_TopLevelOnly ==
    pc = "getcfgs" =>
        [deflist |-> deflist, ret |-> ret]
            = cfgsFold(topLevel(consumed, 0), [deflist |-> <<>>, ret |-> << <<>> >>])

\* getcfgs has read a header with conditionals, included inside an open
\* #ifdef A, and a header included by it
C22_Witness ==
    /\ pc = "getcfgs"
    /\ files = GuardedFiles
    /\ lines = <<>>
    /\ \E k \in 1..Len(consumed) : consumed[k] = <<"#","i","f","d","e","f",SP,"B">>
    /\ \E k \in 1..Len(consumed) : consumed[k] = <<"#","i","f","d","e","f",SP,"C">>
    /\ deflist = << <<"A">> >>
    /\ ret = << <<>>, <<"A">> >>

\* ---------------------------------------------------------------- C23

\* does the line push a guard: #ifdef, #if, #elif or #ifndef with a name
isGuardLine(line) ==
    \E d \in {H_IFDEF_SP, H_IF_SP, H_ELIF_SP, H_IFNDEF_SP} :
        /\ Substr(line, 0, Len(d)) = d
        /\ \E k \in (Len(d) + 1)..Len(line) : line[k] # SP

\* no configuration of the list l has 0 or 1 among its tokens
noZeroOne(l) ==
    \A k \in 1..Len(l) : cfgTokens(l[k]) \cap { <<"0">>, <<"1">> } = {}

C23_NoZeroOne ==
    /\ pc = "getcfgs" => noZeroOne(ret)
    /\ pc = "configs" => noZeroOne(resultConfigurations)

\* a directive that pushes a guard, after which the guard stack holds a
\* token 0, leaves the list of configurations as it is
C23_PushUnderZero ==
    (/\ pc = "getcfgs"
     /\ lines # <<>>
     /\ isGuardLine(Head(lines))
     /\ contains(deflist', <<"0">>))
        => ret' = ret

\* C23: a directive that pushes a guard while the guard stack holds a token
\* "0" adds no configuration, and no configuration getcfgs builds or returns
\* has "0" or "1" among its semicolon-separated tokens.
C23_UnreachableAddsNothing == []C23_NoZeroOne /\ [][C23_PushUnderZero]_vars

\* the guard B has been pushed above a 0 inside the block of A
C23_Witness ==
    /\ pc = "getcfgs"
    /\ deflist = << <<"A">>, <<"0">>, <<"B">> >>
    /\ ret = << <<>>, <<"A">> >>

\* ---------------------------------------------------------------- C24

\* no element is twice in the list l
noDuplicates(l) == \A i, j \in 1..Len(l) : l[i] = l[j] => i = j

\* C24: the list of configurations getcfgs builds and returns never holds
\* the same string twice.
C24_NoDuplicates ==
    /\ pc = "getcfgs" => noDuplicates(ret)
    /\ pc = "configs" => noDuplicates(resultConfigurations)

\* getcfgs has returned after it met the guard A twice and an #elif
C24_Witness ==
    /\ pc = "configs"
    /\ \E i, j \in 1..Len(getlines(processedFile)) :
          /\ i < j
          /\ getlines(processedFile)[i] = <<"#","i","f","d","e","f",SP,"A">>
          /\ getlines(processedFile)[j] = <<"#","i","f","d","e","f",SP,"A">>
    /\ \E k \in 1..Len(getlines(processedFile)) :
          getlines(processedFile)[k] = <<"#","e","l","i","f",SP,"B">>
    /\ Len(resultConfigurations) >= 2

\* ---- C25 (stated; the code violates it)
\* the number of line terminators of the text x: \n, \r\n and a lone \r
lineTerminators(x) ==
    Cardinality({k \in 1..Len(x) :
                    \/ x[k] = CR
                    \/ x[k] = NL /\ (k = 1 \/ x[k - 1] # CR)})

\* is the text x ended by a line terminator that is not spliced away, so
\* that a line end follows every splice
endsLine(x) ==
    /\ x # <<>>
    /\ back(x) \in {NL, CR}
    /\ \A k \in 1..(Len(x) - 1) : x[k] = BS => x[k + 1] \notin {NL, CR} \/ k + 1 < Len(x)

\* C25: the Reader keeps the line numbering: for every input ended by a line
\* terminator the text read returns has as many newlines as the input has
\* line terminators, every deferred newline of a splice being written at
\* the next line end.
C25_LineNumbering ==
    (pc = "cleanup" /\ endsLine(istr))
        => Count(processedFile, NL) = lineTerminators(istr)

\* ---------------------------------------------------------------- C26

\* every turn of the scan for the macro m in the text c from position from
\* on leaves the position inside the text and less text behind it than the
\* turn before, so that the scan ends
RECURSIVE scanDescends(_, _, _)
turnDescends(c, m, from, t) ==
    \/ t.done
    \/ /\ t.pos1 <= Len(t.code)
       /\ Len(t.code) - t.pos1 < Len(c) - from
       /\ scanDescends(t.code, m, t.pos1)
scanDescends(c, m, from) == turnDescends(c, m, from, expandTurn(c, m, from))

\* the scan the next turn of the outer loop of expandMacros starts in the
\* text c from position d0, if it starts one, descends: the scan is for
\* the macro of the #define line found at the start of a line, in the text
\* without that line, from the place where the line was
scanOfDescends(c, d0) ==
    LET d == Find(c, H_DEFINE_SP, d0)
        e == Find(c, <<NL>>, d + 6)
        m == Macro(Substr(c, d + 8, e - d - 7))
    IN  (d # npos /\ (d = 0 \/ At(c, d - 1) = NL) /\ e # npos)
            => (m.name # <<>> => scanDescends(Erase(c, d, e - d), m, d))

\* the number of places of the text c from position d on where "#define "
\* is read
definesFrom(c, d) == Cardinality({k \in d..(Len(c) - 1) : MatchAt(c, H_DEFINE_SP, k)})

\* a turn of the outer loop whose outcome is r either leaves the loop or
\* leaves fewer "#define " to look at, at a position inside the text
outerDescends(r) ==
    \/ r.done
    \/ /\ r.defpos <= Len(r.code)
       /\ definesFrom(r.code, r.defpos) < definesFrom(code, defpos)

=============================================================================
